---- MODULE Spec2Model ----
(***************************************************************************)
(* CaptainLedger backend: the exchange-rate resolver                       *)
(* (backend/services/exchange_rate_service.py) and its rate cache          *)
(* (the exchange_rates table, backend/models/models.py).                   *)
(*                                                                         *)
(* Rates are Python floats (IEEE-754 doubles).  The model keeps the        *)
(* magnitude of a rate as a power of two, 2^exp, together with the three   *)
(* special values the arithmetic of the resolver can produce: 0.0, inf     *)
(* and nan.  A product or a reciprocal whose exponent leaves the range of  *)
(* a double underflows to 0.0 or overflows to inf, as in Python.           *)
(* Negative rates are not modelled: neither the truth tests nor the        *)
(* arithmetic of the resolver look at the sign.                            *)
(*                                                                         *)
(* Time is counted in hours.  The cache table is a set of rows;            *)
(* created_at carries the hour of the insertion, and seq orders the rows   *)
(* of one pair inserted within the same hour: it stands for the sub-hour   *)
(* part of datetime.utcnow().                                              *)
(***************************************************************************)
EXTENDS Integers, Sequences, FiniteSets, TLC

VARIABLES
  cache,      \* the exchange_rates table: a set of rows
  now,        \* datetime.utcnow(), in hours
  api_key,    \* ExchangeRateService.api_key is set (EXCHANGE_RATE_API_KEY)
  writes,     \* history: how many rates have been cached for each pair
  lastStep,   \* history: the step at which the latest call returned
  budgets,    \* the budgets table: a set of rows
  transactions, \* the transactions table: a set of rows
  next_id,    \* the uuid the next new budget gets
  call,       \* a call of a function of budget.py: its name and arguments;
              \* for concurrent cache writes, the position of each writer
  result,     \* what the call returned, once it has
  preferences \* the currency_preferences table: a set of rows

\* no call is being made; the call has not returned yet
NoCall == [fn |-> "none"]
Pending == [pending |-> TRUE]

rateVars == <<cache, now, api_key, writes, lastStep>>
budgetVars == <<budgets, transactions, next_id>>
callVars == <<call, result>>

vars == <<cache, now, api_key, writes, lastStep, budgets, transactions, next_id,
          call, result, preferences>>

----------------------------------------------------------------------------
(* Bounds of the model *)

\* no resolution is explored that would leave more rows than this
MaxRows == 3
\* cache writes explored by the retention specification
MaxWrites == 22
\* of which at most this many go to the second pair
MaxOther == 2

(* Program constants *)

\* timedelta(hours=6): the freshness window
FRESH_HOURS == 6
\* timedelta(hours=48): the widened window
FALLBACK_HOURS == 48
\* existing_count >= 20
CACHE_LIMIT == 20
\* limit(existing_count - 19)
CACHE_KEEP == 19
\* smallest and largest binary exponent of a positive double
MIN_EXP == -1074
MAX_EXP == 1023

Currencies == {"USD", "EUR", "JPY"}

\* the (from_currency, to_currency) arguments of the calls explored
Requests ==
  {<<"USD", "USD">>, <<"EUR", "USD">>, <<"USD", "EUR">>, <<"USD", "JPY">>,
   <<"EUR", "JPY">>}

\* the instants at which calls are explored: rows are then 0, 6, 42 or 48
\* hours old
Instants == {0, 6, 48}

----------------------------------------------------------------------------
(* Floats *)

Zero == [kind |-> "zero", exp |-> 0]
Inf == [kind |-> "inf", exp |-> 0]
NaN == [kind |-> "nan", exp |-> 0]
None == [kind |-> "none", exp |-> 0]
Pos(e) == [kind |-> "pos", exp |-> e]

\* 1.0
One == Pos(0)

\* the double nearest to 2^e
Round(e) == IF e < MIN_EXP THEN Zero ELSE IF e > MAX_EXP THEN Inf ELSE Pos(e)

\* Python's truth test of an Optional[float]: None and 0.0 are false
Truthy(r) == r.kind \notin {"none", "zero"}

\* r != 0
NonZero(r) == r.kind # "zero"

\* r > 0 (inf > 0 holds, nan > 0 does not)
Positive(r) == r.kind \in {"pos", "inf"}

\* the rate itself instead of its reciprocal
FRecip_same(r) == r

\* 1.0 / r, for r != 0
FRecip(r) ==
  CASE r.kind = "pos" -> Round(0 - r.exp)
    [] r.kind = "inf" -> Zero
    [] OTHER -> NaN

\* a / b instead of a * b, for positive finite a and b
FMul_div(a, b) == Round(a.exp - b.exp)

\* a * b
FMul(a, b) ==
  CASE a.kind = "nan" \/ b.kind = "nan" -> NaN
    [] a.kind = "zero" /\ b.kind = "inf" -> NaN
    [] a.kind = "inf" /\ b.kind = "zero" -> NaN
    [] a.kind = "zero" \/ b.kind = "zero" -> Zero
    [] a.kind = "inf" \/ b.kind = "inf" -> Inf
    [] OTHER -> Round(a.exp + b.exp)

----------------------------------------------------------------------------
(* The cache table *)

Row(f, t, rate, source, at, seq) ==
  [from |-> f, to |-> t, rate |-> rate, source |-> source, created_at |-> at,
   seq |-> seq]

\* filter(from_currency == f, to_currency == t)
PairRows(c, f, t) == {r \in c : r.from = f /\ r.to = t}

\* the comparison of the window turned around
Since_before(S, cutoff) == {r \in S : r.created_at < cutoff}

\* filter(..., created_at > cutoff)
Since(S, cutoff) == {r \in S : r.created_at > cutoff}

\* row r was created before row q
Older(r, q) ==
  \/ r.created_at < q.created_at
  \/ r.created_at = q.created_at /\ r.seq < q.seq

\* order_by(created_at.desc()).first(), for a non-empty S
MostRecent(S) == CHOOSE r \in S : \A q \in S \ {r} : Older(q, r)

\* order_by(created_at.asc()).limit(k)
Oldest(S, k) == {r \in S : Cardinality({q \in S : Older(q, r)}) < k}

\* the position within its hour of the next row of a pair whose rows are S
NextSeq(S) == IF S = {} THEN 1 ELSE MostRecent(S).seq + 1

\* _cache_rate deleting one row, the oldest, when the pair has CACHE_LIMIT
\* rows or more
_cache_rate_prune1(c, f, t, rate, source, at, nanStored) ==
  IF rate.kind = "nan" /\ ~nanStored THEN c
  ELSE
    LET S == PairRows(c, f, t)
        existing_count == Cardinality(S)
        oldest_rates == IF existing_count >= CACHE_LIMIT
                        THEN Oldest(S, 1)
                        ELSE {}
    IN (c \ oldest_rates) \cup {Row(f, t, rate, source, at, NextSeq(S))}

\* _cache_rate pruning down to CACHE_LIMIT older rows instead of CACHE_KEEP
_cache_rate_keep20(c, f, t, rate, source, at, nanStored) ==
  IF rate.kind = "nan" /\ ~nanStored THEN c
  ELSE
    LET S == PairRows(c, f, t)
        existing_count == Cardinality(S)
        oldest_rates == IF existing_count >= CACHE_LIMIT
                        THEN Oldest(S, existing_count - CACHE_LIMIT)
                        ELSE {}
    IN (c \ oldest_rates) \cup {Row(f, t, rate, source, at, NextSeq(S))}

\* _cache_rate.  A NaN rate is bound as NULL by SQLite and rejected by the
\* NOT NULL column (the commit fails, the session is rolled back); other
\* databases store it: nanStored says which.
_cache_rate(c, f, t, rate, source, at, nanStored) ==
  IF rate.kind = "nan" /\ ~nanStored THEN c
  ELSE
    LET S == PairRows(c, f, t)
        existing_count == Cardinality(S)
        oldest_rates == IF existing_count >= CACHE_LIMIT
                        THEN Oldest(S, existing_count - CACHE_KEEP)
                        ELSE {}
    IN (c \ oldest_rates) \cup {Row(f, t, rate, source, at, NextSeq(S))}

----------------------------------------------------------------------------
(* The providers *)

\* what the providers report as a rate: 0, 2.0 and the smallest positive
\* double
ProviderRates == {Zero, Pos(1), Pos(MIN_EXP)}

Resp(kind, rate) == [kind |-> kind, rate |-> rate]

\* the request was not made
Unused == Resp("unused", None)

\* primary (keyed) provider.  timeout: requests.exceptions.Timeout;
\* request_error: any other RequestException (transport error, non-2xx status
\* via raise_for_status); bad_json: a body that is not JSON, or a
\* conversion_rate that float() rejects (ValueError); error_result: an object
\* whose result is not 'success'; bad_shape: a JSON body that is not an
\* object (AttributeError of data.get), or a 'success' object whose
\* conversion_rate is null (TypeError of float)
ApiFailures == {"timeout", "request_error", "bad_json", "error_result", "bad_shape"}

ApiResponses(rates) ==
  {Resp(k, None) : k \in ApiFailures} \cup {Resp("success", r) : r \in rates}

\* secondary (key-less) provider.  error: anything that raises inside the
\* try block (timeout, transport error, non-2xx status, malformed JSON, a
\* body of unexpected shape): one handler catches them all; no_rate: an
\* object without a rate for to_currency
FbFailures == {"error", "no_rate"}

FbResponses(rates) ==
  {Resp(k, None) : k \in FbFailures} \cup {Resp("success", r) : r \in rates}

\* the outcome of a step that may raise
Out(val, raised, called) == [val |-> val, raised |-> raised, called |-> called]

\* _fetch_from_api without the test of the API key
_fetch_from_api_nokeytest(key, resp) ==
  CASE resp.kind = "success" -> Out(resp.rate, FALSE, TRUE)
    [] resp.kind = "bad_shape" -> Out(None, TRUE, TRUE)
    [] OTHER -> Out(None, FALSE, TRUE)

\* _fetch_from_api: Timeout, RequestException, ValueError and KeyError are
\* caught; the AttributeError of data.get on a non-object and the TypeError
\* of float(None) are not
_fetch_from_api(key, resp) ==
  IF ~key THEN Out(None, FALSE, FALSE)
  ELSE CASE resp.kind = "success" -> Out(resp.rate, FALSE, TRUE)
         [] resp.kind = "bad_shape" -> Out(None, TRUE, TRUE)
         [] OTHER -> Out(None, FALSE, TRUE)

\* the result of a cache tier or of the fallback step: the value, the table
\* afterwards, the number of queries made and the return statement taken
Res(val, c, reads, step) == [val |-> val, cache |-> c, reads |-> reads, step |-> step]

\* _get_historical_rate with 0.0 as the ultimate fallback
_get_historical_rate_zero(c, f, t) ==
  LET S == PairRows(c, f, t)
  IN IF S # {} THEN Res(MostRecent(S).rate, c, 1, "historical")
     ELSE Res(Zero, c, 1, "default")

\* _get_historical_rate
_get_historical_rate(c, f, t) ==
  LET S == PairRows(c, f, t)
  IN IF S # {} THEN Res(MostRecent(S).rate, c, 1, "historical")
     ELSE Res(One, c, 1, "default")

\* _fetch_fallback: the rate of the provider is returned, not cached
_fetch_fallback(c, f, t, resp, at, nanStored) ==
  IF resp.kind = "success" THEN Res(resp.rate, c, 0, "fallback")
  ELSE _get_historical_rate(c, f, t)

----------------------------------------------------------------------------
(* The resolution ladder *)

\* .first() of an empty query
NoRow == Row("USD", "USD", None, "none", 0, 0)

\* the rows .first() may return from the unordered query of the fresh tier
FirstChoices(c, f, t, at) ==
  LET fresh == Since(PairRows(c, f, t), at - FRESH_HOURS)
  IN IF fresh = {} THEN {NoRow} ELSE fresh

\* _get_cached_rate
_get_cached_rate(c, f, t, at, pick, nanStored) ==
  LET cutoff_time == at - FRESH_HOURS
      fallback_cutoff == at - FALLBACK_HOURS
      fresh == Since(PairRows(c, f, t), cutoff_time)
      stale == Since(PairRows(c, f, t), fallback_cutoff)
      reverse == Since(PairRows(c, t, f), fallback_cutoff)
      usd_from == Since(PairRows(c, f, "USD"), fallback_cutoff)
      usd_to == Since(PairRows(c, "USD", t), fallback_cutoff)
      reverse_rate == FRecip(MostRecent(reverse).rate)
      bridge_rate == FMul(MostRecent(usd_from).rate, MostRecent(usd_to).rate)
  IN IF fresh # {} THEN Res(pick.rate, c, 1, "fresh")
     ELSE IF stale # {} THEN Res(MostRecent(stale).rate, c, 2, "stale")
     ELSE IF reverse # {} /\ NonZero(MostRecent(reverse).rate)
       THEN Res(reverse_rate,
                _cache_rate(c, f, t, reverse_rate, "calculated", at, nanStored), 3, "reverse")
     ELSE IF f # "USD" /\ t # "USD"
       THEN IF usd_from # {} /\ usd_to # {}
              THEN Res(bridge_rate,
                       _cache_rate(c, f, t, bridge_rate, "calculated_bridge", at, nanStored),
                       5, "bridge")
              ELSE Res(None, c, 5, "none")
     ELSE Res(None, c, 3, "none")

\* the outcome of get_exchange_rate: the value returned (None when it
\* raised), the table afterwards, the number of queries on the table, the
\* providers requested, in order, and the return statement taken
Outcome(ret, raised, c, reads, calls, step) ==
  [ret |-> ret, raised |-> raised, cache |-> c, reads |-> reads, calls |-> calls,
   step |-> step]

\* get_exchange_rate from the cache lookup on (from_currency != to_currency)
resolve(c, f, t, at, key, apiResp, fbResp, pick, nanStored) ==
  LET cached == _get_cached_rate(c, f, t, at, pick, nanStored)
      api == _fetch_from_api(key, apiResp)
      apiCalls == IF api.called THEN <<"api">> ELSE <<>>
      fb == _fetch_fallback(cached.cache, f, t, fbResp, at, nanStored)
  IN IF Truthy(cached.val)
       THEN Outcome(cached.val, FALSE, cached.cache, cached.reads, <<>>, cached.step)
     ELSE IF api.raised
       THEN Outcome(None, TRUE, cached.cache, cached.reads, apiCalls, "raised")
     ELSE IF Truthy(api.val)
       THEN Outcome(api.val, FALSE,
                    _cache_rate(cached.cache, f, t, api.val, "api", at, nanStored),
                    cached.reads + 1, apiCalls, "api")
     ELSE Outcome(fb.val, FALSE, fb.cache, cached.reads + fb.reads,
                  apiCalls \o <<"fallback">>, fb.step)

\* get_exchange_rate without the same-currency shortcut
get_exchange_rate_noshortcut(c, f, t, at, key, apiResp, fbResp, pick, nanStored) ==
  resolve(c, f, t, at, key, apiResp, fbResp, pick, nanStored)

\* get_exchange_rate
get_exchange_rate(c, f, t, at, key, apiResp, fbResp, pick, nanStored) ==
  IF f = t THEN Outcome(One, FALSE, c, 0, <<>>, "same")
  ELSE resolve(c, f, t, at, key, apiResp, fbResp, pick, nanStored)

----------------------------------------------------------------------------
(* The specification of the resolver *)

\* the responses the primary provider may give to the request of a call (none
\* when the call makes no request); miss: the cache lookup is made and
\* returns nothing usable
ApiChoices(rates, miss, key) ==
  IF miss /\ key THEN ApiResponses(rates) ELSE {Unused}

\* the responses of the secondary provider, likewise
FbChoices(rates, miss, key, apiResp) ==
  IF /\ miss
     /\ ~_fetch_from_api(key, apiResp).raised
     /\ ~Truthy(_fetch_from_api(key, apiResp).val)
  THEN FbResponses(rates) ELSE {Unused}

\* whether the database stores a NaN: matters only to a call that writes one
NanChoices(c, f, t, at, pick) ==
  IF f # t /\ _get_cached_rate(c, f, t, at, pick, TRUE).val.kind = "nan"
  THEN BOOLEAN ELSE {TRUE}

\* the calls of get_exchange_rate(f, t) that can be made on table c at time
\* at, each with its inputs and its outcome
CallsFor(rates, c, at, key, f, t) ==
  UNION {UNION {
    LET miss == f # t /\ ~Truthy(_get_cached_rate(c, f, t, at, pick, nanStored).val)
    IN UNION {
      {[from |-> f, to |-> t, pick |-> pick, apiResp |-> apiResp, fbResp |-> fbResp,
        out |-> get_exchange_rate(c, f, t, at, key, apiResp, fbResp, pick, nanStored)]
         : fbResp \in FbChoices(rates, miss, key, apiResp)}
       : apiResp \in ApiChoices(rates, miss, key)}
     : nanStored \in NanChoices(c, f, t, at, pick)}
     : pick \in FirstChoices(c, f, t, at)}

Calls(rates, c, at, key) ==
  UNION {CallsFor(rates, c, at, key, rq[1], rq[2]) : rq \in Requests}

\* the rates the providers report in a call
Reports(k) ==
  (IF k.apiResp.kind = "success" THEN {k.apiResp.rate} ELSE {})
    \cup (IF k.fbResp.kind = "success" THEN {k.fbResp.rate} ELSE {})

Init ==
  /\ cache = {}
  /\ now = 0
  /\ api_key \in BOOLEAN
  /\ writes = [p \in Currencies \X Currencies |-> 0]
  /\ lastStep = "none"
  /\ budgets = {} /\ transactions = {} /\ next_id = 1 /\ preferences = {}
  /\ call = NoCall /\ result = Pending

\* time passes
Tick ==
  \E n \in Instants :
    /\ n > now
    /\ now' = n
    /\ lastStep' = "tick"
    /\ UNCHANGED <<cache, api_key, writes>>
    /\ UNCHANGED <<budgetVars, callVars, preferences>>

\* one call of exchange_rate_service.get_exchange_rate(f, t), with providers
\* that report rates in the given set
Resolve(rates) ==
  \E k \in Calls(rates, cache, now, api_key) :
    /\ Cardinality(k.out.cache) <= MaxRows
    /\ cache' = k.out.cache
    /\ writes' = [writes EXCEPT ![<<k.from, k.to>>] = @ + Cardinality(k.out.cache \ cache)]
    /\ lastStep' = k.out.step
    /\ UNCHANGED <<now, api_key>>
    /\ UNCHANGED <<budgetVars, callVars, preferences>>

Next == Tick \/ Resolve(ProviderRates)

Spec == Init /\ [][Next]_vars

\* the retention specification: rates are cached one after the other for two
\* pairs, and time passes

\* one call of _cache_rate(f, t, rate, source)
CacheRate ==
  \E p \in {<<"EUR", "USD">>, <<"USD", "EUR">>} :
    /\ writes[p] < (IF p = <<"EUR", "USD">> THEN MaxWrites ELSE MaxOther)
    /\ cache' = _cache_rate(cache, p[1], p[2], Pos(1), "api", now, TRUE)
    /\ writes' = [writes EXCEPT ![p] = @ + 1]
    /\ lastStep' = "cache"
    /\ UNCHANGED <<now, api_key>>
    /\ UNCHANGED <<budgetVars, callVars, preferences>>

NextCache == Tick \/ CacheRate

SpecCache == Init /\ [][NextCache]_vars

----------------------------------------------------------------------------
(* Calendar dates: datetime.date as backend/api/budget.py uses it *)

\* datetime.MINYEAR, datetime.MAXYEAR and date.max.toordinal()
MINYEAR == 1
MAXYEAR == 9999
MAXORDINAL == 3652059

Date(y, m, d) == [year |-> y, month |-> m, day |-> d]

\* an exception raised by an operation on dates
ValueError == [error |-> "ValueError"]
OverflowError == [error |-> "OverflowError"]

IsDate(x) == DOMAIN x = {"year", "month", "day"}
Raised(x) == DOMAIN x = {"error"}

_is_leap(y) == y % 4 = 0 /\ (y % 100 # 0 \/ y % 400 = 0)

_days_in_month(y, m) ==
  IF m = 2 THEN (IF _is_leap(y) THEN 29 ELSE 28)
  ELSE IF m \in {4, 6, 9, 11} THEN 30 ELSE 31

\* number of days before January 1st of year y
_days_before_year(y) ==
  (y - 1) * 365 + ((y - 1) \div 4) - ((y - 1) \div 100) + ((y - 1) \div 400)

\* number of days in year y before the first day of month m
_days_before_month(y, m) ==
  <<0, 31, 59, 90, 120, 151, 181, 212, 243, 273, 304, 334>>[m]
    + (IF m > 2 /\ _is_leap(y) THEN 1 ELSE 0)

\* date.toordinal(): January 1st of year 1 is day 1
toordinal(d) == _days_before_year(d.year) + _days_before_month(d.year, d.month) + d.day

\* date.fromordinal(n), for 1 <= n <= MAXORDINAL
fromordinal(n) ==
  LET n0 == n - 1
      n400 == n0 \div 146097
      r400 == n0 % 146097
      n100 == r400 \div 36524
      r100 == r400 % 36524
      n4 == r100 \div 1461
      r4 == r100 % 1461
      n1 == r4 \div 365
      r1 == r4 % 365
      y == n400 * 400 + 1 + n100 * 100 + n4 * 4 + n1
      m0 == (r1 + 50) \div 32
      month == IF _days_before_month(y, m0) > r1 THEN m0 - 1 ELSE m0
  IN IF n1 = 4 \/ n100 = 4 THEN Date(y - 1, 12, 31)
     ELSE Date(y, month, r1 - _days_before_month(y, month) + 1)

\* date.weekday(): Monday is 0
weekday(d) == (toordinal(d) + 6) % 7

\* date.replace(year=y, month=m, day=day): the new fields are checked
replace(d, y, m, day) ==
  IF /\ MINYEAR <= y /\ y <= MAXYEAR
     /\ 1 <= m /\ m <= 12
     /\ 1 <= day /\ day <= _days_in_month(y, m)
  THEN Date(y, m, day) ELSE ValueError

\* d + timedelta(days=k)
plus_days(d, k) ==
  LET o == toordinal(d) + k
  IN IF 0 < o /\ o <= MAXORDINAL THEN fromordinal(o) ELSE OverflowError

\* the window of a month: lines 27-32 and, for an unknown period, 40-44
month_window(d) ==
  LET start_date == replace(d, d.year, d.month, 1)
      next_month == IF start_date.month = 12
                    THEN replace(start_date, start_date.year + 1, 1, start_date.day)
                    ELSE replace(start_date, start_date.year, start_date.month + 1,
                                 start_date.day)
  IN IF Raised(next_month) THEN next_month
     ELSE [start_date |-> start_date, end_date |-> plus_days(next_month, 0 - 1)]

\* calculate_period_dates(period, start_date) for a start_date that is a date
calculate_period_dates(period, d) ==
  IF period = "daily" THEN [start_date |-> d, end_date |-> d]
  ELSE IF period = "weekly" THEN
    LET start_date == plus_days(d, 0 - weekday(d))
        end_date == plus_days(start_date, 6)
    IN IF Raised(start_date) THEN start_date
       ELSE IF Raised(end_date) THEN end_date
       ELSE [start_date |-> start_date, end_date |-> end_date]
  ELSE IF period = "monthly" THEN month_window(d)
  ELSE IF period = "yearly" THEN
    LET start_date == replace(d, d.year, 1, 1)
    IN [start_date |-> start_date,
        end_date |-> replace(start_date, start_date.year, 12, 31)]
  ELSE month_window(d)

\* the loop of rollover_budgets skips the budget (continue)
Skip == [skip |-> TRUE]

\* new_start of rollover_budgets
new_start(period, current_start) ==
  IF period = "daily" THEN plus_days(current_start, 1)
  ELSE IF period = "weekly" THEN plus_days(current_start, 7)
  ELSE IF period = "monthly" THEN
    IF current_start.month = 12
    THEN replace(current_start, current_start.year + 1, 1, current_start.day)
    ELSE replace(current_start, current_start.year, current_start.month + 1,
                 current_start.day)
  ELSE IF period = "yearly" THEN
    replace(current_start, current_start.year + 1, current_start.month,
            current_start.day)
  ELSE Skip

----------------------------------------------------------------------------
(* Budgets: the budgets table and the handlers of backend/api/budget.py *)

\* end_date = None
NoDate == [none |-> TRUE]

\* float(x) of a JSON value: the numbers of the requests explored, written as
\* JSON text; anything else raises ValueError
FloatLiterals == {"80", "90", "100", "250"}

float(x) ==
  CASE x = "80" -> 80 [] x = "90" -> 90 [] x = "100" -> 100 [] x = "250" -> 250

\* the value of a field of a request body, or a default when it is absent
Get(data, field, default) == IF field \in DOMAIN data THEN data[field] ELSE default

\* datetime.now().date() at the time of the requests explored
Today == Date(2024, 1, 31)

\* what a handler answers: the budgets table after the request, the HTTP
\* status, the message or error of the body, the ids the body lists
\* (budget_id of a creation, the budgets of a listing), rolled_over_count,
\* and the pairs (budget, successor) the request has rolled over
Answer(B, status, message, ids, count, pairs) ==
  [budgets |-> B, status |-> status, message |-> message, ids |-> ids,
   rolled_over_count |-> count, pairs |-> pairs]

\* the rows of B that the commit leading to table C writes with an UPDATE:
\* those are the rows whose updated_at becomes the utcnow() of the request
\* (onupdate)
Updated(B, C) == {b.id : b \in {x \in B : x \notin C /\ \E y \in C : y.id = x.id}}

\* Transaction rows matched by the query of calculate_spent_amount
Expenses_exclusive(T, user_id, category, start_date, end_date) ==
  {t \in T : /\ t.user_id = user_id
             /\ t.category = category
             /\ t.amount < 0
             /\ toordinal(t.date) >= toordinal(start_date)
             /\ toordinal(t.date) < toordinal(end_date)}

Expenses(T, user_id, category, start_date, end_date) ==
  {t \in T : /\ t.user_id = user_id
             /\ t.category = category
             /\ t.amount < 0
             /\ toordinal(t.date) >= toordinal(start_date)
             /\ toordinal(t.date) <= toordinal(end_date)}

RECURSIVE SumAbs(_)
SumAbs(S) ==
  IF S = {} THEN 0
  ELSE LET t == CHOOSE x \in S : TRUE IN (IF t.amount < 0 THEN 0 - t.amount ELSE t.amount) + SumAbs(S \ {t})

\* calculate_spent_amount
calculate_spent_amount(T, user_id, category, start_date, end_date) ==
  SumAbs(Expenses(T, user_id, category, start_date, end_date))

\* a row of the budgets table.  created_at is not kept: ids are handed out
\* in the order of creation.  updated_at is not kept either: it is set to
\* utcnow() by every UPDATE of the row and by every update_budget that
\* finds the row
Budget(id, user_id, name, category, amount, period, start_date, end_date, currency, alert_threshold, auto_rollover, notes) ==
  [id |-> id, user_id |-> user_id, name |-> name, category |-> category,
   amount |-> amount, currency |-> currency, period |-> period,
   start_date |-> start_date, end_date |-> end_date, spent_amount |-> 0,
   remaining_amount |-> 0, alert_threshold |-> alert_threshold, is_active |-> TRUE,
   auto_rollover |-> auto_rollover, notes |-> notes]

\* the fields create_budget requires
required_fields == {"name", "category", "amount", "period"}

\* create_budget with a duplicate check that does not look at is_active
create_budget_anyrow(B, id, current_user_id, data) ==
  IF ~(required_fields \subseteq DOMAIN data)
    THEN Answer(B, 400, "Missing required field", {}, 0, {})
  ELSE IF \E b \in B : /\ b.user_id = current_user_id
                        /\ b.category = data.category
                        /\ b.period = data.period
    THEN Answer(B, 400, "An active budget already exists", {}, 0, {})
  ELSE IF \/ data.amount \notin FloatLiterals
          \/ Get(data, "alert_threshold", "80") \notin FloatLiterals
    THEN Answer(B, 500, "error", {}, 0, {})
  ELSE Answer(B \cup {Budget(id, current_user_id, data.name, data.category,
                             float(data.amount), data.period,
                             Get(data, "start_date", Today),
                             Get(data, "end_date", NoDate),
                             Get(data, "currency", "USD"),
                             float(Get(data, "alert_threshold", "80")),
                             Get(data, "auto_rollover", FALSE),
                             Get(data, "notes", ""))},
              201, "Budget created successfully", {id}, 0, {})

\* create_budget; id is the uuid of the new row
create_budget(B, id, current_user_id, data) ==
  IF ~(required_fields \subseteq DOMAIN data)
    THEN Answer(B, 400, "Missing required field", {}, 0, {})
  ELSE IF \E b \in B : /\ b.user_id = current_user_id
                        /\ b.category = data.category
                        /\ b.period = data.period
                        /\ b.is_active
    THEN Answer(B, 400, "An active budget already exists", {}, 0, {})
  ELSE IF \/ data.amount \notin FloatLiterals
          \/ Get(data, "alert_threshold", "80") \notin FloatLiterals
    THEN Answer(B, 500, "error", {}, 0, {})
  ELSE Answer(B \cup {Budget(id, current_user_id, data.name, data.category,
                             float(data.amount), data.period,
                             Get(data, "start_date", Today),
                             Get(data, "end_date", NoDate),
                             Get(data, "currency", "USD"),
                             float(Get(data, "alert_threshold", "80")),
                             Get(data, "auto_rollover", FALSE),
                             Get(data, "notes", ""))},
              201, "Budget created successfully", {id}, 0, {})

\* update_budget
update_budget(B, current_user_id, budget_id, data) ==
  LET found == {b \in B : b.id = budget_id /\ b.user_id = current_user_id}
      budget == CHOOSE b \in found : TRUE
      updated ==
        [budget EXCEPT
           !.name = Get(data, "name", @),
           !.category = Get(data, "category", @),
           !.amount = IF "amount" \in DOMAIN data THEN float(data.amount) ELSE @,
           !.period = Get(data, "period", @),
           !.start_date = Get(data, "start_date", @),
           !.end_date = Get(data, "end_date", @),
           !.currency = Get(data, "currency", @),
           !.alert_threshold = IF "alert_threshold" \in DOMAIN data
                               THEN float(data.alert_threshold) ELSE @,
           !.auto_rollover = Get(data, "auto_rollover", @),
           !.is_active = Get(data, "is_active", @),
           !.notes = Get(data, "notes", @)]
  IN IF found = {} THEN Answer(B, 404, "Budget not found", {}, 0, {})
     ELSE IF \/ "amount" \in DOMAIN data /\ data.amount \notin FloatLiterals
             \/ "alert_threshold" \in DOMAIN data
                  /\ data.alert_threshold \notin FloatLiterals
       THEN Answer(B, 500, "error", {}, 0, {})
     ELSE Answer((B \ found) \cup {updated}, 200, "Budget updated successfully",
                 {}, 0, {})

\* delete_budget looking the budget up by id only
delete_budget_anyowner(B, current_user_id, budget_id) ==
  LET found == {b \in B : b.id = budget_id}
  IN IF found = {} THEN Answer(B, 404, "Budget not found", {}, 0, {})
     ELSE Answer(B \ found, 200, "Budget deleted successfully", {}, 0, {})

\* delete_budget
delete_budget(B, current_user_id, budget_id) ==
  LET found == {b \in B : b.id = budget_id /\ b.user_id = current_user_id}
  IN IF found = {} THEN Answer(B, 404, "Budget not found", {}, 0, {})
     ELSE Answer(B \ found, 200, "Budget deleted successfully", {}, 0, {})

\* the budgets a rollover request selects
rollover_selected(B, current_user_id, budget_ids) ==
  IF budget_ids = {}
  THEN {b \in B : b.user_id = current_user_id /\ b.auto_rollover /\ b.is_active}
  ELSE {b \in B : b.user_id = current_user_id /\ b.id \in budget_ids}

\* rollover_budgets with a successor that gets the default currency
rollover_budgets_nocurrency(B, id, current_user_id, data) ==
  LET period == Get(data, "period", "monthly")
      selected == rollover_selected(B, current_user_id, Get(data, "budget_ids", {}))
      rolled == {b \in selected : IsDate(new_start(period, b.start_date))}
      new_id(b) == id + Cardinality({x \in rolled : x.id < b.id})
      new_budget(b) ==
        Budget(new_id(b), current_user_id, b.name, b.category, b.amount, b.period,
               new_start(period, b.start_date), NoDate, "USD",
               b.alert_threshold, b.auto_rollover, b.notes)
      deactivated(b) ==
        [b EXCEPT !.is_active = FALSE]
  IN IF \E b \in selected : Raised(new_start(period, b.start_date))
       THEN Answer(B, 500, "error", {}, 0, {})
     ELSE Answer((B \ rolled) \cup {deactivated(b) : b \in rolled}
                   \cup {new_budget(b) : b \in rolled},
                 200, "Successfully rolled over", {}, Cardinality(rolled),
                 {<<b.id, new_id(b)>> : b \in rolled})

\* rollover_budgets without the rollback: when the loop raises, the
\* deactivations made so far are committed, the new rows are not
rollover_budgets_norollback(B, id, current_user_id, data) ==
  LET period == Get(data, "period", "monthly")
      selected == rollover_selected(B, current_user_id, Get(data, "budget_ids", {}))
      rolled == {b \in selected : IsDate(new_start(period, b.start_date))}
      new_id(b) == id + Cardinality({x \in rolled : x.id < b.id})
      new_budget(b) ==
        Budget(new_id(b), current_user_id, b.name, b.category, b.amount, b.period,
               new_start(period, b.start_date), NoDate, b.currency,
               b.alert_threshold, b.auto_rollover, b.notes)
      deactivated(b) ==
        [b EXCEPT !.is_active = FALSE]
  IN IF \E b \in selected : Raised(new_start(period, b.start_date))
       THEN Answer((B \ rolled) \cup {deactivated(b) : b \in rolled},
                   500, "error", {}, 0, {})
     ELSE Answer((B \ rolled) \cup {deactivated(b) : b \in rolled}
                   \cup {new_budget(b) : b \in rolled},
                 200, "Successfully rolled over", {}, Cardinality(rolled),
                 {<<b.id, new_id(b)>> : b \in rolled})

\* rollover_budgets; the new rows get the uuids id, id + 1, ...  One commit
\* ends the loop: an exception in the loop rolls the whole request back
rollover_budgets(B, id, current_user_id, data) ==
  LET period == Get(data, "period", "monthly")
      selected == rollover_selected(B, current_user_id, Get(data, "budget_ids", {}))
      rolled == {b \in selected : IsDate(new_start(period, b.start_date))}
      new_id(b) == id + Cardinality({x \in rolled : x.id < b.id})
      new_budget(b) ==
        Budget(new_id(b), current_user_id, b.name, b.category, b.amount, b.period,
               new_start(period, b.start_date), NoDate, b.currency,
               b.alert_threshold, b.auto_rollover, b.notes)
      deactivated(b) ==
        [b EXCEPT !.is_active = FALSE]
  IN IF \E b \in selected : Raised(new_start(period, b.start_date))
       THEN Answer(B, 500, "error", {}, 0, {})
     ELSE Answer((B \ rolled) \cup {deactivated(b) : b \in rolled}
                   \cup {new_budget(b) : b \in rolled},
                 200, "Successfully rolled over", {}, Cardinality(rolled),
                 {<<b.id, new_id(b)>> : b \in rolled})

\* the budgets a listing selects: request.args period (default 'monthly'),
\* category and active_only (default 'true'); an empty value does not filter
get_budgets_selected(B, current_user_id, args) ==
  LET period == Get(args, "period", "monthly")
      category == Get(args, "category", "")
      active_only == Get(args, "active_only", "true") = "true"
  IN {b \in B : /\ b.user_id = current_user_id
                /\ period # "" => b.period = period
                /\ category # "" => b.category = category
                /\ active_only => b.is_active}

\* get_budgets with a remaining_amount computed from the spent_amount stored
\* before the request
get_budgets_stale(B, T, current_user_id, args) ==
  LET selected == get_budgets_selected(B, current_user_id, args)
      window(b) == calculate_period_dates(b.period, b.start_date)
      spent(b) == calculate_spent_amount(T, current_user_id, b.category,
                                         window(b).start_date, window(b).end_date)
      refreshed(b) ==
        [b EXCEPT !.spent_amount = spent(b),
                  !.remaining_amount = b.amount - b.spent_amount]
  IN IF \E b \in selected : Raised(window(b))
       THEN Answer(B, 500, "error", {}, 0, {})
     ELSE Answer((B \ selected) \cup {refreshed(b) : b \in selected}, 200, "budgets",
                 {b.id : b \in selected}, 0, {})

\* get_budgets: spent_amount and remaining_amount of the budgets listed are
\* recomputed and committed
get_budgets(B, T, current_user_id, args) ==
  LET selected == get_budgets_selected(B, current_user_id, args)
      window(b) == calculate_period_dates(b.period, b.start_date)
      spent(b) == calculate_spent_amount(T, current_user_id, b.category,
                                         window(b).start_date, window(b).end_date)
      refreshed(b) ==
        [b EXCEPT !.spent_amount = spent(b),
                  !.remaining_amount = b.amount - spent(b)]
  IN IF \E b \in selected : Raised(window(b))
       THEN Answer(B, 500, "error", {}, 0, {})
     ELSE Answer((B \ selected) \cup {refreshed(b) : b \in selected}, 200, "budgets",
                 {b.id : b \in selected}, 0, {})

----------------------------------------------------------------------------
(* The specification of the budget handlers *)

\* budgets created by the requests explored
MaxBudgets == 2
Users == {"u1", "u2"}

\* a body of POST / with the required fields only
FoodBody ==
  [name |-> "Food", category |-> "food", amount |-> "100", period |-> "monthly"]

\* the bodies of the POST / requests explored; the last two are malformed
CreateBodies ==
  {FoodBody,
   [name |-> "Rent", category |-> "rent", amount |-> "250", period |-> "monthly",
    start_date |-> Date(2023, 12, 31), currency |-> "EUR", alert_threshold |-> "90",
    auto_rollover |-> TRUE, notes |-> "flat"],
   [name |-> "Food", category |-> "food", period |-> "monthly"],
   [name |-> "Food", category |-> "food", amount |-> "abc", period |-> "monthly"]}

\* the POST / requests explored: the second user sends the first body only
Creates ==
  {<<"u1", data>> : data \in CreateBodies}
    \cup {<<"u2", FoodBody>>}

\* the bodies of the PUT /<budget_id> requests explored
UpdateBodies ==
  {[is_active |-> FALSE], [is_active |-> TRUE], [category |-> "rent"],
   [amount |-> "abc"]}

\* the bodies of the POST /rollover requests explored for a table B
RolloverBodies(B) ==
  {[period |-> "monthly"], [budget_ids |-> {}]}
    \cup {[period |-> p, budget_ids |-> ids] :
            p \in {"monthly", "quarterly"}, ids \in SUBSET {b.id : b \in B} \ {{}}}

\* the query strings of the GET / requests explored
ListArgs ==
  {[period |-> "monthly"], [active_only |-> "false"],
   [period |-> "", category |-> "food", active_only |-> "false"]}

Transaction(id, user_id, amount, date, category) ==
  [id |-> id, user_id |-> user_id, amount |-> amount, date |-> date,
   category |-> category]

\* the transactions table during the budget requests
Ledger ==
  {Transaction(1, "u1", 0 - 30, Date(2024, 1, 31), "food"),
   Transaction(2, "u1", 50, Date(2024, 1, 20), "food"),
   Transaction(3, "u1", 0 - 40, Date(2024, 1, 1), "rent"),
   Transaction(4, "u2", 0 - 10, Date(2024, 1, 20), "food")}

InitBudget ==
  /\ cache = {} /\ now = 0 /\ api_key = FALSE
  /\ writes = [p \in Currencies \X Currencies |-> 0]
  /\ lastStep = "none"
  /\ budgets = {}
  /\ transactions = Ledger
  /\ next_id = 1 /\ preferences = {}
  /\ call = NoCall /\ result = Pending

\* the requests explored create no more than MaxBudgets budgets
Explored(o) == \A b \in o.budgets : b.id <= MaxBudgets

\* the next uuid after a request with answer o
NextId(o) == next_id + Cardinality({b \in o.budgets : b.id >= next_id})

CreateBudget ==
  \E c \in Creates :
    LET o == create_budget(budgets, next_id, c[1], c[2])
    IN /\ Explored(o)
       /\ budgets' = o.budgets
       /\ next_id' = NextId(o)
       /\ UNCHANGED <<transactions, rateVars, callVars, preferences>>

UpdateBudget ==
  \E u \in Users, id \in 1..MaxBudgets, data \in UpdateBodies :
    LET o == update_budget(budgets, u, id, data)
    IN /\ Explored(o)
       /\ budgets' = o.budgets
       /\ next_id' = NextId(o)
       /\ UNCHANGED <<transactions, rateVars, callVars, preferences>>

DeleteBudget ==
  \E u \in Users, id \in 1..MaxBudgets :
    LET o == delete_budget(budgets, u, id)
    IN /\ Explored(o)
       /\ budgets' = o.budgets
       /\ next_id' = NextId(o)
       /\ UNCHANGED <<transactions, rateVars, callVars, preferences>>

RolloverBudgets ==
  \E u \in Users, data \in RolloverBodies(budgets) :
    LET o == rollover_budgets(budgets, next_id, u, data)
    IN /\ Explored(o)
       /\ budgets' = o.budgets
       /\ next_id' = NextId(o)
       /\ UNCHANGED <<transactions, rateVars, callVars, preferences>>

GetBudgets ==
  \E u \in Users, args \in ListArgs :
    LET o == get_budgets(budgets, transactions, u, args)
    IN /\ Explored(o)
       /\ budgets' = o.budgets
       /\ next_id' = NextId(o)
       /\ UNCHANGED <<transactions, rateVars, callVars, preferences>>

NextBudget ==
  CreateBudget \/ UpdateBudget \/ DeleteBudget \/ RolloverBudgets \/ GetBudgets

SpecBudget == InitBudget /\ [][NextBudget]_vars

----------------------------------------------------------------------------
(* The specification of the date functions of budget.py *)

\* the dates explored: every day of a common year, a leap year and MAXYEAR
Anchors ==
  {d \in {Date(y, m, day) : y \in {2023, 2024, 9999}, m \in 1..12, day \in 1..31} :
     d.day <= _days_in_month(d.year, d.month)}

\* the calls explored: the four period kinds of the code and an unknown one
DateCalls ==
  {[fn |-> f, period |-> p, date |-> d] :
     f \in {"calculate_period_dates", "new_start"}, d \in Anchors,
     p \in {"daily", "weekly", "monthly", "yearly", "quarterly"}}

InitDates ==
  /\ cache = {} /\ now = 0 /\ api_key = FALSE
  /\ writes = [p \in Currencies \X Currencies |-> 0]
  /\ lastStep = "none"
  /\ budgets = {} /\ transactions = {} /\ next_id = 1 /\ preferences = {}
  /\ call \in DateCalls
  /\ result = Pending

\* calculate_period_dates(period, start_date) returns or raises
CalculatePeriodDates ==
  /\ call.fn = "calculate_period_dates" /\ result = Pending
  /\ result' = calculate_period_dates(call.period, call.date)
  /\ UNCHANGED <<call, rateVars, budgetVars, preferences>>

\* the loop of rollover_budgets computes new_start for a budget
NewStart ==
  /\ call.fn = "new_start" /\ result = Pending
  /\ result' = new_start(call.period, call.date)
  /\ UNCHANGED <<call, rateVars, budgetVars, preferences>>

NextDates == CalculatePeriodDates \/ NewStart

SpecDates == InitDates /\ [][NextDates]_vars

----------------------------------------------------------------------------
(* get_budget_status of budget.py, in the binary64 arithmetic of Python's
   float.  A positive double is [exp, bits]: bits are the 53 bits of the
   significand, most significant first, bits[1] = 1, and the value is
   bits * 2^(exp - 52).  Zero is the record ZeroDouble. *)

Precision == 53

ZeroDouble == [zero |-> TRUE]

\* The exact quotient and product are computed in digits of DigitBits bits
DigitBits == 9

\* the bits, most significant first, of a sequence of digits
BitsOf(digits) ==
  [i \in 1..(DigitBits * Len(digits)) |->
     (digits[((i - 1) \div DigitBits) + 1]
        \div (2 ^ (DigitBits - 1 - ((i - 1) % DigitBits)))) % 2]

\* the k-th digit of a sequence of bits, which zeros extend on the right
DigitOf(bits, k) ==
  LET bit(i) == IF i <= Len(bits) THEN bits[i] ELSE 0
      j == DigitBits * (k - 1)
  IN bit(j + 1) * 256 + bit(j + 2) * 128 + bit(j + 3) * 64 + bit(j + 4) * 32
       + bit(j + 5) * 16 + bit(j + 6) * 8 + bit(j + 7) * 4 + bit(j + 8) * 2
       + bit(j + 9)

\* the first n digits of the quotient r/den, most significant first, and the
\* remainder left after them, for 0 <= r < 2*den: the first digit holds the
\* integer part and DigitBits - 1 bits of the fraction
RECURSIVE LongDivision(_, _, _)
LongDivision(r, den, n) ==
  IF n = 0 THEN [digits |-> <<>>, rem |-> r]
  ELSE LET scaled == r * ((2 ^ DigitBits) \div 2)
           rest == LongDivision(2 * (scaled % den), den, n - 1)
       IN [digits |-> <<scaled \div den>> \o rest.digits, rem |-> rest.rem]

\* bits + 1 on a significand; all ones carries into the exponent
Increment(exp, bits) ==
  IF \A i \in 1..Len(bits) : bits[i] = 1
  THEN [exp |-> exp + 1, bits |-> [i \in 1..Len(bits) |-> IF i = 1 THEN 1 ELSE 0]]
  ELSE LET last == CHOOSE i \in 1..Len(bits) :
                     bits[i] = 0 /\ \A j \in (i + 1)..Len(bits) : bits[j] = 1
       IN [exp |-> exp,
           bits |-> [i \in 1..Len(bits) |->
                       IF i < last THEN bits[i] ELSE IF i = last THEN 1 ELSE 0]]

\* round to nearest, ties to even: all holds the exact bits, the first
\* Precision of them are kept, sticky tells of a nonzero rest beyond all
RoundNearestEven(exp, all, sticky) ==
  LET kept == SubSeq(all, 1, Precision)
      guard == all[Precision + 1]
      rest == sticky \/ \E i \in (Precision + 2)..Len(all) : all[i] = 1
  IN IF guard = 1 /\ (rest \/ kept[Precision] = 1)
     THEN Increment(exp, kept)
     ELSE [exp |-> exp, bits |-> kept]

\* the smallest k with n < 2^k * d, for n, d > 0
RECURSIVE ShiftsBelow(_, _)
ShiftsBelow(n, d) == IF n < d THEN 0 ELSE 1 + ShiftsBelow(n, 2 * d)

\* spent_amount / budget_amount for integers a >= 0, b > 0
float_div(a, b) ==
  IF a = 0 THEN ZeroDouble
  ELSE LET up == ShiftsBelow(b, a)        \* b < 2^up * a
           down == ShiftsBelow(a, b)      \* a < 2^down * b
           num == IF a >= b THEN a ELSE a * (2 ^ (up - 1))
           den == IF a >= b THEN b * (2 ^ (down - 1)) ELSE b
           e0 == IF a >= b THEN down - 1 ELSE 1 - up
           \* den <= num * 2^[num < den] < 2 * den
           exp == IF num >= den THEN e0 ELSE e0 - 1
           q == LongDivision(IF num >= den THEN num ELSE 2 * num, den, 6)
       IN RoundNearestEven(exp, BitsOf(q.digits), q.rem > 0)

\* the binary digits of n, least significant first
RECURSIVE BinaryLSB(_)
BinaryLSB(n) == IF n = 0 THEN <<>> ELSE <<n % 2>> \o BinaryLSB(n \div 2)

\* lsd * k + carry in digits, least significant digit first; the last digit
\* is the carry out
RECURSIVE MulSmall(_, _, _)
MulSmall(lsd, k, carry) ==
  IF lsd = <<>> THEN <<carry>>
  ELSE LET v == Head(lsd) * k + carry
       IN <<v % (2 ^ DigitBits)>> \o MulSmall(Tail(lsd), k, v \div (2 ^ DigitBits))

Reverse(q) == [i \in 1..Len(q) |-> q[Len(q) + 1 - i]]

\* x * k for a double x and an integer k with 2 <= k < (2 ^ DigitBits)
float_mul(x, k) ==
  IF DOMAIN x = {"zero"} THEN ZeroDouble
  ELSE LET digits == [i \in 1..6 |-> DigitOf(x.bits, i)]   \* 2 * significand
           wide == BitsOf(Reverse(MulSmall(Reverse(digits), k, 0)))
           first == CHOOSE i \in 1..Len(wide) :
                      wide[i] = 1 /\ \A j \in 1..(i - 1) : wide[j] = 0
           product == SubSeq(wide, first, Len(wide))  \* 2 * significand * k
       IN RoundNearestEven(x.exp + Len(product) - 1 - Precision, product, FALSE)

\* the double of the integer n > 0 (exact below 2^53)
float_of(n) ==
  LET digits == Reverse(BinaryLSB(n))
  IN [exp |-> Len(digits) - 1,
      bits |-> [i \in 1..Precision |-> IF i <= Len(digits) THEN digits[i] ELSE 0]]

\* x >= n for a double x >= 0 and an integer n > 0
float_ge(x, n) ==
  IF DOMAIN x = {"zero"} THEN FALSE
  ELSE LET y == float_of(n)
       IN \/ x.exp > y.exp
          \/ /\ x.exp = y.exp
             /\ \/ x.bits = y.bits
                \/ \E i \in 1..Precision :
                     /\ x.bits[i] > y.bits[i]
                     /\ \A j \in 1..(i - 1) : x.bits[j] = y.bits[j]

get_budget_status(spent_amount, budget_amount, alert_threshold) ==
  IF budget_amount <= 0 THEN "invalid"
  ELSE LET percentage == float_mul(float_div(spent_amount, budget_amount), 100)
       IN IF float_ge(percentage, 100) THEN "exceeded"
          ELSE IF float_ge(percentage, alert_threshold) THEN "warning"
          ELSE IF float_ge(percentage, 50) THEN "on_track"
          ELSE "healthy"

\* the amounts spent, the budgeted amounts and the alert thresholds explored
MaxSpent == 110

StatusCalls ==
  {[fn |-> "get_budget_status", spent_amount |-> a, budget_amount |-> b,
    alert_threshold |-> t] :
     a \in 0..MaxSpent, b \in {-100, 0, 100, 200}, t \in {29, 80}}

InitStatus ==
  /\ cache = {} /\ now = 0 /\ api_key = FALSE
  /\ writes = [p \in Currencies \X Currencies |-> 0]
  /\ lastStep = "none"
  /\ budgets = {} /\ transactions = {} /\ next_id = 1 /\ preferences = {}
  /\ call \in StatusCalls
  /\ result = Pending

GetBudgetStatus ==
  /\ call.fn = "get_budget_status" /\ result = Pending
  /\ result' = [value |-> get_budget_status(call.spent_amount, call.budget_amount,
                                             call.alert_threshold)]
  /\ UNCHANGED <<call, rateVars, budgetVars, preferences>>

NextStatus == GetBudgetStatus

SpecStatus == InitStatus /\ [][NextStatus]_vars

----------------------------------------------------------------------------
(* The specification of calculate_spent_amount *)

\* the rows the transactions table is drawn from: expenses on the first and
\* on the last day of January 2024, an income, a zero amount, another
\* category, another user, the day before and the day after the month
SpentPool ==
  {Transaction(1, "u1", 0 - 30, Date(2024, 1, 1), "food"),
   Transaction(2, "u1", 0 - 20, Date(2024, 1, 31), "food"),
   Transaction(3, "u1", 50, Date(2024, 1, 15), "food"),
   Transaction(4, "u1", 0, Date(2024, 1, 10), "food"),
   Transaction(5, "u1", 0 - 40, Date(2024, 1, 15), "rent"),
   Transaction(6, "u2", 0 - 10, Date(2024, 1, 15), "food"),
   Transaction(7, "u1", 0 - 5, Date(2023, 12, 31), "food"),
   Transaction(8, "u1", 0 - 7, Date(2024, 2, 1), "food")}

\* the calls explored: the month of January for an owner and a category,
\* and a single day
SpentCalls ==
  {[fn |-> "calculate_spent_amount", user_id |-> u, category |-> c,
    start_date |-> Date(2024, 1, 1), end_date |-> Date(2024, 1, 31)] :
     u \in Users, c \in {"food", "rent"}}
  \cup {[fn |-> "calculate_spent_amount", user_id |-> "u1", category |-> "food",
         start_date |-> Date(2024, 1, 31), end_date |-> Date(2024, 1, 31)]}

InitSpent ==
  /\ cache = {} /\ now = 0 /\ api_key = FALSE
  /\ writes = [p \in Currencies \X Currencies |-> 0]
  /\ lastStep = "none"
  /\ budgets = {} /\ next_id = 1 /\ preferences = {}
  /\ transactions \in SUBSET SpentPool
  /\ call \in SpentCalls
  /\ result = Pending

\* calculate_spent_amount runs one SELECT and returns the sum
CalculateSpentAmount ==
  /\ call.fn = "calculate_spent_amount" /\ result = Pending
  /\ result' = [value |-> calculate_spent_amount(transactions, call.user_id,
                              call.category, call.start_date, call.end_date)]
  /\ UNCHANGED <<call, rateVars, budgetVars, preferences>>

NextSpent == CalculateSpentAmount

SpecSpent == InitSpent /\ [][NextSpent]_vars

----------------------------------------------------------------------------
(* The resolver with the providers down: the primary provider has reported
   one rate, EUR/USD at hour 0, and from then on neither provider answers
   with a rate *)

\* the hours at which calls are explored
DownInstants == {6, 42, 48, 54, 90, 96}

\* the rate was observed at hour 0
InitDown ==
  /\ cache = {Row("EUR", "USD", Pos(1), "api", 0, 1)}
  /\ now = 0
  /\ api_key \in BOOLEAN
  /\ writes = [p \in Currencies \X Currencies |-> IF p = <<"EUR", "USD">> THEN 1 ELSE 0]
  /\ lastStep = "api"
  /\ budgets = {} /\ transactions = {} /\ next_id = 1 /\ preferences = {}
  /\ call = NoCall /\ result = Pending

\* time passes
TickDown ==
  \E n \in DownInstants :
    /\ n > now
    /\ now' = n
    /\ lastStep' = "tick"
    /\ UNCHANGED <<cache, api_key, writes>>
    /\ UNCHANGED <<budgetVars, callVars, preferences>>

\* the providers report no rate
NextDown == TickDown \/ Resolve({})

SpecDown == InitDown /\ [][NextDown]_vars

----------------------------------------------------------------------------
(* Concurrent cache writes: several requests run _cache_rate for the same
   pair at once, each in its own database session.  A query sees what has
   been committed when it runs; the deletions and the insertion of a
   session reach the table with its commit.  call[w] is the position of
   writer w in _cache_rate. *)

Writers == {1, 2, 3}

\* the third writer is explored once the pair has this many rows
LateFrom == 18

\* the pair written to
RacePair == <<"EUR", "USD">>

\* a writer outside _cache_rate
Idle == [pc |-> "idle", existing_count |-> 0, oldest_rates |-> {}, new_rate |-> NoRow]

InitRace ==
  /\ cache = {} /\ now = 0 /\ api_key = FALSE
  /\ writes = [p \in Currencies \X Currencies |-> 0]
  /\ lastStep = "none"
  /\ budgets = {} /\ transactions = {} /\ next_id = 1 /\ preferences = {}
  /\ call = [w \in Writers |-> Idle]
  /\ result = Pending

\* existing_count = ...count()
Count(w) ==
  /\ call[w].pc = "idle"
  /\ w = 3 => Cardinality(PairRows(cache, RacePair[1], RacePair[2])) >= LateFrom
  /\ call' = [call EXCEPT ![w] =
                [Idle EXCEPT !.pc = "counted",
                             !.existing_count =
                               Cardinality(PairRows(cache, RacePair[1], RacePair[2]))]]
  /\ lastStep' = "count"
  /\ UNCHANGED <<cache, now, api_key, writes, result, budgetVars, preferences>>

\* oldest_rates = ...limit(existing_count - 19).all() when existing_count >=
\* 20, the rows are marked for deletion, and new_rate is built with
\* created_at = utcnow(): writes counts the rows built, which gives the order
\* of their created_at within the hour
Prepare(w) ==
  /\ call[w].pc = "counted"
  /\ writes[RacePair] < MaxWrites
  /\ call' = [call EXCEPT ![w] =
                [@ EXCEPT !.pc = "prepared",
                          !.oldest_rates =
                            IF call[w].existing_count >= CACHE_LIMIT
                            THEN Oldest(PairRows(cache, RacePair[1], RacePair[2]),
                                        call[w].existing_count - CACHE_KEEP)
                            ELSE {},
                          !.new_rate = Row(RacePair[1], RacePair[2], Pos(1), "api", now,
                                           writes[RacePair] + 1)]]
  /\ writes' = [writes EXCEPT ![RacePair] = @ + 1]
  /\ lastStep' = "prepare"
  /\ UNCHANGED <<cache, now, api_key, result, budgetVars, preferences>>

\* db.session.commit(): the rows marked are deleted (a row that another
\* session has deleted meanwhile is skipped with a warning) and the new row
\* is inserted.  result keeps what the writer counted and what it leaves
Commit(w) ==
  /\ call[w].pc = "prepared"
  /\ cache' = (cache \ call[w].oldest_rates) \cup {call[w].new_rate}
  /\ result' = [existing_count |-> call[w].existing_count,
                before |-> Cardinality(PairRows(cache, RacePair[1], RacePair[2])),
                after |-> Cardinality(PairRows(cache', RacePair[1], RacePair[2]))]
  /\ call' = [call EXCEPT ![w] = Idle]
  /\ lastStep' = "commit"
  /\ UNCHANGED <<now, api_key, writes, budgetVars, preferences>>

NextRace == \E w \in Writers : Count(w) \/ Prepare(w) \/ Commit(w)

SpecRace == InitRace /\ [][NextRace]_vars

----------------------------------------------------------------------------
(* Sync: upload_data of backend/api/sync.py.  The users and sync_logs tables,
   which every upload that reaches the commit writes to, are not part of
   the model. *)

TypeError == [error |-> "TypeError"]

\* a row of the transactions table as upload_data reads and writes it
SyncRow(id, user_id, amount, currency, date, category, note, updated_at) ==
  [id |-> id, user_id |-> user_id, amount |-> amount, currency |-> currency,
   date |-> date, category |-> category, note |-> note, updated_at |-> updated_at,
   is_synced |-> TRUE]

\* datetime.fromisoformat of an uploaded updated_at: the time, and whether
\* the text carries a UTC offset
Stamp(at, aware) == [at |-> at, aware |-> aware]

\* a date text that strptime(..., '%Y-%m-%d') rejects with ValueError
BadDate == [text |-> "31/01/2024"]

\* upload_one overwriting also on an equal updated_at
upload_one_equal(T, current_user_id, t_data, at) ==
  LET found == {t \in T : t.id = t_data.id}
      transaction == CHOOSE t \in found : TRUE
      updated ==
        [transaction EXCEPT
           !.amount = IF "amount" \in DOMAIN t_data THEN float(t_data.amount) ELSE @,
           !.currency = Get(t_data, "currency", @),
           !.date = t_data.date,
           !.category = Get(t_data, "category", @),
           !.note = Get(t_data, "note", @),
           !.updated_at = at,
           !.is_synced = TRUE]
  IN IF "date" \notin DOMAIN t_data THEN [raised |-> TypeError, T |-> T]
     ELSE IF ~IsDate(t_data.date) THEN [raised |-> Skip, T |-> T]
     ELSE IF found # {} THEN
       IF "updated_at" \notin DOMAIN t_data THEN [raised |-> Skip, T |-> T]
       ELSE IF t_data.updated_at.aware THEN [raised |-> TypeError, T |-> T]
       ELSE IF t_data.updated_at.at >= transaction.updated_at THEN
         IF "amount" \in DOMAIN t_data /\ t_data.amount \notin FloatLiterals
         THEN [raised |-> ValueError, T |-> T]
         ELSE [raised |-> Skip, T |-> (T \ found) \cup {updated}]
       ELSE [raised |-> Skip, T |-> T]
     ELSE IF "amount" \notin DOMAIN t_data THEN [raised |-> TypeError, T |-> T]
     ELSE IF t_data.amount \notin FloatLiterals THEN [raised |-> ValueError, T |-> T]
     ELSE [raised |-> Skip,
           T |-> T \cup {SyncRow(t_data.id, current_user_id, float(t_data.amount),
                                  Get(t_data, "currency", "USD"), t_data.date,
                                  Get(t_data, "category", "Other"),
                                  Get(t_data, "note", ""), at)}]

\* the table after one round of the loop over data['transactions'], or the
\* exception that the round raises; at is utcnow()
upload_one(T, current_user_id, t_data, at) ==
  LET found == {t \in T : t.id = t_data.id}
      transaction == CHOOSE t \in found : TRUE
      updated ==
        [transaction EXCEPT
           !.amount = IF "amount" \in DOMAIN t_data THEN float(t_data.amount) ELSE @,
           !.currency = Get(t_data, "currency", @),
           !.date = t_data.date,
           !.category = Get(t_data, "category", @),
           !.note = Get(t_data, "note", @),
           !.updated_at = at,
           !.is_synced = TRUE]
  IN IF "date" \notin DOMAIN t_data THEN [raised |-> TypeError, T |-> T]
     ELSE IF ~IsDate(t_data.date) THEN [raised |-> Skip, T |-> T]
     ELSE IF found # {} THEN
       IF "updated_at" \notin DOMAIN t_data THEN [raised |-> Skip, T |-> T]
       ELSE IF t_data.updated_at.aware THEN [raised |-> TypeError, T |-> T]
       ELSE IF t_data.updated_at.at > transaction.updated_at THEN
         IF "amount" \in DOMAIN t_data /\ t_data.amount \notin FloatLiterals
         THEN [raised |-> ValueError, T |-> T]
         ELSE [raised |-> Skip, T |-> (T \ found) \cup {updated}]
       ELSE [raised |-> Skip, T |-> T]
     ELSE IF "amount" \notin DOMAIN t_data THEN [raised |-> TypeError, T |-> T]
     ELSE IF t_data.amount \notin FloatLiterals THEN [raised |-> ValueError, T |-> T]
     ELSE [raised |-> Skip,
           T |-> T \cup {SyncRow(t_data.id, current_user_id, float(t_data.amount),
                                  Get(t_data, "currency", "USD"), t_data.date,
                                  Get(t_data, "category", "Other"),
                                  Get(t_data, "note", ""), at)}]

\* the loop over data['transactions']
RECURSIVE upload_loop(_, _, _, _)
upload_loop(T, current_user_id, records, at) ==
  IF records = <<>> THEN [raised |-> Skip, T |-> T]
  ELSE LET r == upload_one(T, current_user_id, Head(records), at)
       IN IF Raised(r.raised) THEN r
          ELSE upload_loop(r.T, current_user_id, Tail(records), at)

\* upload_data: the transactions table after the request and the HTTP
\* status.  An exception of the loop is not caught: the request is answered
\* 500 before the commit, and nothing of it is stored
upload_data(T, current_user_id, data, at) ==
  IF DOMAIN data = {} THEN [transactions |-> T, status |-> 400]
  ELSE IF "transactions" \notin DOMAIN data THEN [transactions |-> T, status |-> 200]
  ELSE LET r == upload_loop(T, current_user_id, data.transactions, at)
       IN IF Raised(r.raised) THEN [transactions |-> T, status |-> 500]
          ELSE [transactions |-> r.T, status |-> 200]

\* the records uploaded.  Plain has the required fields only; Edit carries
\* every field and an updated_at at 6 hours; Late changes the date at hour
\* 50; Other is a second transaction
UploadRecord ==
  [Plain |-> [id |-> "t1", amount |-> "100", date |-> Date(2024, 1, 31),
              category |-> "food"],
   Edit |-> [id |-> "t1", amount |-> "250", currency |-> "EUR",
             date |-> Date(2024, 2, 1), category |-> "rent", note |-> "n",
             updated_at |-> Stamp(6, FALSE)],
   Late |-> [id |-> "t1", date |-> Date(2024, 2, 29), updated_at |-> Stamp(50, FALSE)],
   Other |-> [id |-> "t2", amount |-> "80", date |-> Date(2024, 1, 31),
              updated_at |-> Stamp(0, FALSE)],
   \* records that the loop skips or that make it raise: a date in another
   \* format, an updated_at with a UTC offset, no date, an amount that is not
   \* a number
   Slashed |-> [id |-> "t1", amount |-> "250", date |-> BadDate,
                updated_at |-> Stamp(50, FALSE)],
   Offset |-> [id |-> "t1", amount |-> "90", date |-> Date(2024, 1, 31),
               updated_at |-> Stamp(50, TRUE)],
   Dateless |-> [id |-> "t1", amount |-> "90", updated_at |-> Stamp(50, FALSE)],
   Garbled |-> [id |-> "t1", amount |-> "abc", date |-> Date(2024, 1, 31),
                updated_at |-> Stamp(50, FALSE)]]

UploadRecords == {UploadRecord[k] : k \in DOMAIN UploadRecord}

\* the bodies of the POST /upload requests explored
UploadBodies ==
  {<<>>, [device |-> "phone"]}
    \cup {[transactions |-> <<r>>] : r \in UploadRecords}
    \cup {[transactions |-> q] : q \in {<<UploadRecord.Plain, UploadRecord.Edit>>,
            <<UploadRecord.Other, UploadRecord.Dateless>>,
            <<UploadRecord.Other, UploadRecord.Late>>}}

\* the requests explored: the second user uploads single records
Uploads ==
  {<<"u1", data>> : data \in UploadBodies}
    \cup {<<"u2", [transactions |-> <<UploadRecord[k]>>]>> :
            k \in {"Plain", "Edit", "Late", "Other"}}

InitSync ==
  /\ cache = {} /\ now = 0 /\ api_key = FALSE
  /\ writes = [p \in Currencies \X Currencies |-> 0]
  /\ lastStep = "none"
  /\ budgets = {} /\ transactions = {} /\ next_id = 1 /\ preferences = {}
  /\ call = NoCall /\ result = Pending

\* one POST /upload request
UploadData ==
  \E u \in Uploads :
    LET o == upload_data(transactions, u[1], u[2], now)
    IN /\ transactions' = o.transactions
       /\ lastStep' = "upload"
       /\ UNCHANGED <<cache, now, api_key, writes, budgets, next_id, callVars, preferences>>

NextSync == Tick \/ UploadData

SpecSync == InitSync /\ [][NextSync]_vars

----------------------------------------------------------------------------
(* Currency preferences: get_currency_preferences and
   set_currency_preference of backend/api/currencies.py *)

\* the currencies table: the codes of the active rows and of the others
ActiveCodes == {"USD", "EUR", "JPY"}

\* a row of currency_preferences
CurrencyPreference(user_id, currency_code, is_primary, display_order) ==
  [user_id |-> user_id, currency_code |-> currency_code, is_primary |-> is_primary,
   display_order |-> display_order]

\* what a preference handler answers: the table after the request, the
\* HTTP status, and the primary_currency of the body
PrefAnswer(P, status, primary_currency) ==
  [preferences |-> P, status |-> status, primary_currency |-> primary_currency]

\* get_currency_preferences: a user without preferences gets USD as primary
get_currency_preferences(P, user_id) ==
  IF {p \in P : p.user_id = user_id} = {}
  THEN PrefAnswer(P \cup {CurrencyPreference(user_id, "USD", TRUE, 0)}, 200, "")
  ELSE PrefAnswer(P, 200, "")

\* x or y of Python for texts
Or(x, y) == IF x # "" THEN x ELSE y

\* the rows .first() may return for the query of the primary preference
PrimaryChoices(P, user_id) ==
  LET primaries == {p \in P : p.user_id = user_id /\ p.is_primary}
  IN IF primaries = {} THEN {CurrencyPreference(user_id, "", FALSE, 0)} ELSE primaries

\* set_currency_preference that leaves the primary preference it finds as
\* it is
set_currency_preference_noclear(P, user_id, data, existing_primary) ==
  LET currency_code == Or(Get(data, "primary_currency", ""),
                          Get(data, "currency_code", ""))
      found == {p \in P : p.user_id = user_id /\ p.currency_code = currency_code}
      new_preference == CHOOSE p \in found : TRUE
  IN IF DOMAIN data = {} THEN PrefAnswer(P, 400, "")
     ELSE IF currency_code = "" THEN PrefAnswer(P, 400, "")
     ELSE IF currency_code \notin ActiveCodes THEN PrefAnswer(P, 400, "")
     ELSE IF found # {}
       THEN PrefAnswer((P \ {new_preference})
                         \cup {[new_preference EXCEPT !.is_primary = TRUE]},
                       200, currency_code)
     ELSE PrefAnswer(P \cup {CurrencyPreference(user_id, currency_code, TRUE, 0)},
                     200, currency_code)

\* set_currency_preference; existing_primary is the row that the query of
\* the primary preference returns (a row without currency_code when there
\* is none).  is_primary of the body is read and not used
set_currency_preference(P, user_id, data, existing_primary) ==
  LET currency_code == Or(Get(data, "primary_currency", ""),
                          Get(data, "currency_code", ""))
      cleared == IF existing_primary \in P
                 THEN (P \ {existing_primary})
                        \cup {[existing_primary EXCEPT !.is_primary = FALSE]}
                 ELSE P
      found == {p \in cleared : p.user_id = user_id /\ p.currency_code = currency_code}
      new_preference == CHOOSE p \in found : TRUE
  IN IF DOMAIN data = {} THEN PrefAnswer(P, 400, "")
     ELSE IF currency_code = "" THEN PrefAnswer(P, 400, "")
     ELSE IF currency_code \notin ActiveCodes THEN PrefAnswer(P, 400, "")
     ELSE IF found # {}
       THEN PrefAnswer((cleared \ {new_preference})
                         \cup {[new_preference EXCEPT !.is_primary = TRUE]},
                       200, currency_code)
     ELSE PrefAnswer(cleared \cup {CurrencyPreference(user_id, currency_code, TRUE, 0)},
                     200, currency_code)

\* the bodies of the POST /preferences requests explored: both formats, an
\* is_primary of false, an empty primary_currency, no code, an inactive and
\* an unknown code, no body
PreferenceBodies ==
  {[primary_currency |-> c] : c \in ActiveCodes \cup {"GBP", "XXX"}}
    \cup {[currency_code |-> c, is_primary |-> FALSE] : c \in ActiveCodes}
    \cup {[primary_currency |-> "", currency_code |-> "EUR"],
          [is_primary |-> TRUE], <<>>}

InitPrefs ==
  /\ cache = {} /\ now = 0 /\ api_key = FALSE
  /\ writes = [p \in Currencies \X Currencies |-> 0]
  /\ lastStep = "none"
  /\ budgets = {} /\ transactions = {} /\ next_id = 1 /\ preferences = {}
  /\ call = NoCall /\ result = Pending

GetCurrencyPreferences ==
  \E u \in Users :
    /\ preferences' = get_currency_preferences(preferences, u).preferences
    /\ UNCHANGED <<rateVars, budgetVars, callVars>>

SetCurrencyPreference ==
  \E u \in Users, data \in PreferenceBodies :
    \E existing_primary \in PrimaryChoices(preferences, u) :
      /\ preferences' =
           set_currency_preference(preferences, u, data, existing_primary).preferences
      /\ UNCHANGED <<rateVars, budgetVars, callVars>>

NextPrefs == GetCurrencyPreferences \/ SetCurrencyPreference

SpecPrefs == InitPrefs /\ [][NextPrefs]_vars

----------------------------------------------------------------------------
(* The claims *)

\* the calls that can be made in the current state
K == Calls(ProviderRates, cache, now, api_key)

\* those for the pair (f, t)
KFor(f, t) == CallsFor(ProviderRates, cache, now, api_key, f, t)

RowsOf(f, t) == {r \in cache : r.from = f /\ r.to = t}

Age(r) == now - r.created_at

\* the rows of S created less than h hours ago
Younger(S, h) == {r \in S : Age(r) < h}

\* the most recently created row of a non-empty S
Latest(S) ==
  CHOOSE r \in S : \A q \in S \ {r} :
    \/ q.created_at < r.created_at
    \/ q.created_at = r.created_at /\ q.seq < r.seq

\* the rows a call adds to the table
NewRows(k) == k.out.cache \ cache

\* the call adds exactly one row: (from, to, rate, source), created now
WroteOne(k, rate, source) ==
  \E r \in NewRows(k) :
    /\ NewRows(k) = {r}
    /\ r.from = k.from /\ r.to = k.to
    /\ r.rate = rate /\ r.source = source /\ r.created_at = now

\* the direct, reverse and bridge tiers find nothing usable for (f, t)
TiersMiss(f, t) ==
  /\ Younger(RowsOf(f, t), FALLBACK_HOURS) = {}
  /\ \/ Younger(RowsOf(t, f), FALLBACK_HOURS) = {}
     \/ Latest(Younger(RowsOf(t, f), FALLBACK_HOURS)).rate = Zero
  /\ ~ /\ f # "USD" /\ t # "USD"
       /\ Younger(RowsOf(f, "USD"), FALLBACK_HOURS) # {}
       /\ Younger(RowsOf("USD", t), FALLBACK_HOURS) # {}

\* the primary provider is unavailable or fails
ApiFailed(k) == k.apiResp.kind \in ApiFailures \cup {"unused"}

\* 1/r of a positive finite r, as a double
Reciprocal(r) == IF 0 - r.exp > MAX_EXP THEN Inf ELSE Pos(0 - r.exp)

\* a*b of two positive a and b, as a double
Product(a, b) ==
  IF a.kind = "inf" \/ b.kind = "inf" THEN Inf
  ELSE IF a.exp + b.exp > MAX_EXP THEN Inf
  ELSE IF a.exp + b.exp < MIN_EXP THEN Zero
  ELSE Pos(a.exp + b.exp)

\* C1: for every currency X and every state of the cache and of the
\* providers, get_exchange_rate(X, X) returns 1.0 without a query on the
\* cache, without a cache write and without a request to a provider
C1_SameCurrency ==
  \A X \in Currencies :
    \A apiResp \in ApiResponses(ProviderRates) \cup {Unused} :
      \A fbResp \in FbResponses(ProviderRates) \cup {Unused} :
        LET o == get_exchange_rate(cache, X, X, now, api_key, apiResp, fbResp, NoRow, TRUE)
        IN /\ o.ret = One /\ ~o.raised
           /\ o.reads = 0 /\ o.cache = cache /\ o.calls = <<>>

\* C1 witness: a same-currency call has returned while the cache holds rows
C1_Witness == lastStep = "same" /\ cache # {}

\* C2: when from # to, no cache tier within 48 hours finds anything and both
\* providers fail, the call returns the rate of the most recently created row
\* of the pair whatever its age, or 1.0 when the pair has no row; and no call
\* returns None or raises
C2_LastResort ==
  \A k \in K :
    k.from # k.to =>
      /\ ~k.out.raised
      /\ k.out.ret # None
      /\ (TiersMiss(k.from, k.to) /\ ApiFailed(k) /\ k.fbResp.kind \in FbFailures) =>
           k.out.ret = IF RowsOf(k.from, k.to) # {}
                       THEN Latest(RowsOf(k.from, k.to)).rate ELSE One

\* C3: no failure of a provider propagates out of get_exchange_rate: after a
\* failure of the primary provider the secondary one is requested, after a
\* failure of the secondary one the historical rate or the default is returned
C3_ProviderFailuresContained ==
  \A k \in K :
    /\ ~k.out.raised
    /\ k.apiResp.kind \in ApiFailures =>
         k.out.calls = <<"api", "fallback">>
    /\ k.fbResp.kind \in FbFailures => k.out.step \in {"historical", "default"}

C5_FallbackCached ==
  \A k \in K :
    (k.from # k.to /\ TiersMiss(k.from, k.to) /\ ApiFailed(k)
       /\ k.fbResp.kind = "success") =>
      /\ k.out.ret = k.fbResp.rate
      /\ \E r \in NewRows(k) : r.from = k.from /\ r.to = k.to /\ r.rate = k.fbResp.rate
      /\ \A k2 \in CallsFor(ProviderRates, k.out.cache, now, api_key, k.from, k.to) :
           k2.out.calls = <<>>

C7_Reverse ==
  \A p \in Requests :
    LET reverse == Younger(RowsOf(p[2], p[1]), FALLBACK_HOURS)
        rr == Latest(reverse).rate
    IN (p[1] # p[2] /\ Younger(RowsOf(p[1], p[2]), FALLBACK_HOURS) = {}
          /\ reverse # {}) => \A k \in KFor(p[1], p[2]) :
         /\ rr.kind = "pos" =>
              /\ k.out.ret = Reciprocal(rr)
              /\ WroteOne(k, Reciprocal(rr), "calculated")
              /\ k.out.calls = <<>>
         /\ rr.kind = "inf" =>
              /\ k.out.ret = Zero
              /\ WroteOne(k, Zero, "calculated")
              /\ k.out.calls = <<>>
         /\ rr = Zero =>
              /\ k.out.step # "reverse"
              /\ \A r \in NewRows(k) : r.source # "calculated"

\* C7 amended: the same for a reverse rate that is not 0 and whose reciprocal
\* is not 0.0; the reciprocal 0.0 of an infinite reverse rate is cached as
\* 'calculated' but counts as a miss, and the call goes on to the providers
C7_ReverseNonZero ==
  \A p \in Requests :
    LET reverse == Younger(RowsOf(p[2], p[1]), FALLBACK_HOURS)
        rr == Latest(reverse).rate
    IN (p[1] # p[2] /\ Younger(RowsOf(p[1], p[2]), FALLBACK_HOURS) = {}
          /\ reverse # {}) => \A k \in KFor(p[1], p[2]) :
         /\ rr.kind = "pos" =>
              /\ k.out.ret = Reciprocal(rr)
              /\ WroteOne(k, Reciprocal(rr), "calculated")
              /\ k.out.calls = <<>>
         /\ rr.kind = "inf" =>
              /\ \E r \in NewRows(k) : r.rate = Zero /\ r.source = "calculated"
              /\ k.out.calls # <<>>
         /\ rr = Zero =>
              /\ k.out.step # "reverse"
              /\ \A r \in NewRows(k) : r.source # "calculated"

\* C7 witness: a call has returned the reciprocal of a reverse row and cached
\* it
C7_Witness ==
  /\ lastStep = "reverse"
  /\ \E r \in cache, q \in cache :
       /\ r.source = "calculated" /\ r.created_at = now
       /\ q.from = r.to /\ q.to = r.from /\ q.rate.kind = "pos"
       /\ r.rate = Reciprocal(q.rate)

\* the bridge tier is reached for (f, t): neither is USD, no row of the pair
\* is younger than 48 hours and the reverse tier finds nothing usable
BridgeReached(f, t) ==
  /\ f # t /\ f # "USD" /\ t # "USD"
  /\ Younger(RowsOf(f, t), FALLBACK_HOURS) = {}
  /\ \/ Younger(RowsOf(t, f), FALLBACK_HOURS) = {}
     \/ Latest(Younger(RowsOf(t, f), FALLBACK_HOURS)).rate = Zero

C9_Retention ==
  \A p \in Currencies \X Currencies :
    LET S == RowsOf(p[1], p[2])
        m == writes[p]
    IN /\ Cardinality(S) <= CACHE_LIMIT
       /\ Cardinality(S) = (IF m > CACHE_LIMIT THEN CACHE_LIMIT ELSE m)
       /\ {r.seq : r \in S} = (IF m > CACHE_LIMIT THEN m - CACHE_LIMIT + 1 ELSE 1)..m
       /\ \A r \in S, q \in S : r.seq < q.seq => r.created_at <= q.created_at

\* C9 witness: more than 20 rates have been cached for one pair, some for
\* another one
C9_Witness ==
  /\ lastStep = "cache"
  /\ writes[<<"EUR", "USD">>] > CACHE_LIMIT
  /\ writes[<<"USD", "EUR">>] > 0
  /\ Cardinality(RowsOf("EUR", "USD")) = CACHE_LIMIT

\* a rate between 2^-511 and 2^511
Moderate(r) == r.kind = "pos" /\ r.exp >= -511 /\ r.exp <= 511

\* the rates of the providers that the cache holds: only those of the primary
\* provider are cached, with source 'api'
Reported(c) == {r.rate : r \in {q \in c : q.source = "api"}}

Rollovers ==
  {[user |-> u, data |-> data,
    selected |-> rollover_selected(budgets, u, Get(data, "budget_ids", {})),
    o |-> rollover_budgets(budgets, next_id, u, data)]
     : u \in Users, data \in RolloverBodies(budgets)}

\* the successors a rollover answer gives budget b
Successors(o, b) == {n \in o.budgets : <<b.id, n.id>> \in o.pairs}

\* C11: a rollover request is committed as a whole: when it fails the table
\* is unchanged (no deactivation, no successor); when it succeeds, every
\* submitted budget that was active is either still active (the same row)
\* with no successor, or inactive with exactly one successor, which is a new
\* active row
C11_RolloverAtomic ==
  \A r \in Rollovers :
    /\ r.o.status \in {200, 500}
    /\ r.o.status = 500 => r.o.budgets = budgets /\ r.o.pairs = {}
    /\ r.o.status = 200 =>
         \A b \in {x \in r.selected : x.is_active} :
           \/ b \in r.o.budgets /\ Successors(r.o, b) = {}
           \/ /\ [b EXCEPT !.is_active = FALSE] \in r.o.budgets
              /\ b \notin r.o.budgets
              /\ Cardinality(Successors(r.o, b)) = 1
              /\ \A n \in Successors(r.o, b) :
                   n.is_active /\ n.id \notin {x.id : x \in budgets}

\* C11 witness: a budget has been rolled over (it is inactive and its
\* successor, one month later, is active) while another budget of the table
\* makes a monthly rollover fail
C11_Witness ==
  /\ \E old \in budgets, new \in budgets :
       /\ ~old.is_active /\ new.is_active /\ new.id > old.id
       /\ new.user_id = old.user_id /\ new.category = old.category
       /\ new.start_date = new_start("monthly", old.start_date)
  /\ \E r \in Rollovers : r.o.status = 500

\* the selected budgets whose next start date can be computed
Rollable(r) ==
  {b \in r.selected : IsDate(new_start(Get(r.data, "period", "monthly"), b.start_date))}

\* C12: a rollover request rolls over every selected budget whose next start
\* date can be computed, also when the next start date of another budget of
\* the batch cannot, and rolled_over_count is the number of budgets rolled
\* over
C12_PartialFailure ==
  \A r \in Rollovers :
    /\ r.o.rolled_over_count = Cardinality(Rollable(r))
    /\ \A b \in Rollable(r) :
         /\ [b EXCEPT !.is_active = FALSE] \in r.o.budgets
         /\ Successors(r.o, b) # {}

\* the month after that of date d, as (year, month)
FollowingMonth(d) == IF d.month = 12 THEN <<d.year + 1, 1>> ELSE <<d.year, d.month + 1>>

\* the day of month of d does not exist in the following month
NoSuchDay(d) == d.day > _days_in_month(FollowingMonth(d)[1], FollowingMonth(d)[2])

\* C13: a monthly rollover of a budget whose start day does not exist in the
\* following month succeeds, and the start_date of the successor is a valid
\* date of the following month
C13_MonthlyShortMonth ==
  \A r \in Rollovers :
    Get(r.data, "period", "monthly") = "monthly" =>
      \A b \in {x \in r.selected : NoSuchDay(x.start_date)} :
        /\ r.o.status = 200
        /\ Successors(r.o, b) # {}
        /\ \A n \in Successors(r.o, b) :
             /\ IsDate(n.start_date)
             /\ <<n.start_date.year, n.start_date.month>> = FollowingMonth(b.start_date)
             /\ 1 <= n.start_date.day
             /\ n.start_date.day <= _days_in_month(n.start_date.year, n.start_date.month)

\* C14: no request makes an inactive budget active again: a budget that is
\* inactive before a create, update, list, rollover or delete request is
\* inactive or deleted after it
C14_InactiveTerminal ==
  [][\A b \in budgets :
       ~b.is_active => \A n \in budgets' : n.id = b.id => ~n.is_active]_vars

\* the create requests that can be made in the current state, each with its
\* answer
Creations ==
  {[user |-> c[1], data |-> c[2], o |-> create_budget(budgets, next_id, c[1], c[2])]
     : c \in Creates}

\* an active budget of the user with the category and period of the body
ActiveTwin(user, data) ==
  {b \in budgets : /\ b.user_id = user /\ b.category = data.category
                   /\ b.period = data.period /\ b.is_active}

\* the request is answered with an error and the table is unchanged
Rejected(o) == o.status \in {400, 500} /\ o.budgets = budgets

\* the request adds exactly one row: an active budget of the user with the
\* category and period of the body
Created(user, data, o) ==
  /\ o.status = 201
  /\ budgets \subseteq o.budgets
  /\ Cardinality(o.budgets \ budgets) = 1
  /\ \A n \in o.budgets \ budgets :
       /\ n.user_id = user /\ n.category = data.category /\ n.period = data.period
       /\ n.is_active /\ n.id \notin {b.id : b \in budgets}

\* the body has the required fields and numbers where numbers are expected
WellFormed(data) ==
  /\ required_fields \subseteq DOMAIN data
  /\ data.amount \in FloatLiterals
  /\ Get(data, "alert_threshold", "80") \in FloatLiterals

Copied == {"name", "category", "amount", "period", "currency", "alert_threshold",
           "auto_rollover", "notes"}

\* the rollover of budget b by request r: exactly one new row, owned by the
\* same user, with the copied fields, active and without end_date; the
\* original differs in is_active only
RolledOver(r, b) ==
  /\ Cardinality(Successors(r.o, b)) = 1
  /\ \A n \in Successors(r.o, b) :
       /\ n \notin budgets /\ n.id \notin {x.id : x \in budgets}
       /\ n.user_id = b.user_id
       /\ \A f \in Copied : n[f] = b[f]
       /\ n.is_active /\ n.end_date = NoDate
  /\ [b EXCEPT !.is_active = FALSE] \in r.o.budgets
  /\ Cardinality(r.o.budgets \ budgets)
       = Cardinality(Rollable(r)) + Cardinality({x \in Rollable(r) : x.is_active})

NotAfter(d1, d2) == toordinal(d1) <= toordinal(d2)

\* the window of the specification for period kind p and anchor a
SpecifiedWindow(p, a, w) ==
  /\ IsDate(w.start_date) /\ IsDate(w.end_date)
  /\ p = "daily" => w.start_date = a /\ w.end_date = a
  /\ p = "weekly" =>
       /\ weekday(w.start_date) = 0
       /\ toordinal(w.end_date) = toordinal(w.start_date) + 6
  /\ p \notin {"daily", "weekly", "yearly"} =>
       /\ w.start_date = Date(a.year, a.month, 1)
       /\ w.end_date = Date(a.year, a.month, _days_in_month(a.year, a.month))
  /\ p = "yearly" =>
       /\ w.start_date = Date(a.year, 1, 1)
       /\ w.end_date = Date(a.year, 12, 31)
  /\ NotAfter(w.start_date, a) /\ NotAfter(a, w.end_date)

\* C16: for every anchor date and period kind calculate_period_dates returns
\* the inclusive window of the specification (daily: the anchor; weekly:
\* Monday to Sunday of the anchor's week; monthly and unknown kinds: first to
\* last day of the anchor's month; yearly: Jan 1 to Dec 31 of the anchor's
\* year), with start <= anchor <= end
C16_PeriodWindow ==
  (call.fn = "calculate_period_dates" /\ result # Pending) =>
    /\ ~Raised(result)
    /\ SpecifiedWindow(call.period, call.date, result)

\* the next start date of the specification for period kind p and start d
SpecifiedNextStart(p, d, n) ==
  /\ IsDate(n)
  /\ p = "daily" => toordinal(n) = toordinal(d) + 1
  /\ p = "weekly" => toordinal(n) = toordinal(d) + 7
  /\ p = "monthly" =>
       <<n.year, n.month>> = FollowingMonth(d) /\ n.day = d.day
  /\ p = "yearly" => n.year = d.year + 1 /\ n.month = d.month /\ n.day = d.day

\* C18: for every start_date and every target period kind of daily, weekly,
\* monthly and yearly, the rollover computes a successor start_date: one day
\* later, seven days later, the same day of the following month, the same
\* month and day of the next year
C18_NextStart ==
  (call.fn = "new_start" /\ result # Pending /\ call.period # "quarterly") =>
    /\ ~Raised(result)
    /\ SpecifiedNextStart(call.period, call.date, result)

\* the ladder in exact arithmetic: spent/budgeted*100 >= x iff
\* spent*100 >= x*budgeted, for budgeted > 0
Ladder(spent, budgeted, threshold) ==
  IF budgeted <= 0 THEN "invalid"
  ELSE IF spent * 100 >= 100 * budgeted THEN "exceeded"
  ELSE IF spent * 100 >= threshold * budgeted THEN "warning"
  ELSE IF spent * 100 >= 50 * budgeted THEN "on_track"
  ELSE "healthy"

\* C17: get_budget_status follows the ladder for all inputs: budgeted <= 0 is
\* invalid; otherwise 100% or more of the budget spent is exceeded, else the
\* alert threshold or more is warning, else 50% or more is on_track, else
\* healthy, with inclusive boundaries (exactly the threshold is warning)
C17_StatusLadder ==
  (call.fn = "get_budget_status" /\ result # Pending) =>
    result.value = Ladder(call.spent_amount, call.budget_amount, call.alert_threshold)

\* the transaction with id i counts for a call: it belongs to the owner, has
\* the category, a date within the inclusive window and a negative amount
Counts(T, c, i) ==
  \E t \in T : /\ t.id = i
               /\ t.user_id = c.user_id /\ t.category = c.category
               /\ NotAfter(c.start_date, t.date) /\ NotAfter(t.date, c.end_date)
               /\ t.amount < 0

\* the sum of the absolute values of the transactions 1..i that count
RECURSIVE Total(_, _, _)
Total(T, c, i) ==
  IF i = 0 THEN 0
  ELSE Total(T, c, i - 1)
         + (IF Counts(T, c, i)
            THEN 0 - (CHOOSE t \in T : t.id = i).amount ELSE 0)

\* C20: calculate_spent_amount returns the sum of the absolute values of
\* exactly the owner's transactions of the category dated within the
\* inclusive window with a strictly negative amount; the result is never
\* negative, is 0 when no such transaction exists, and the call leaves the
\* stored data unchanged
C20_SpentAmount ==
  [][(call.fn = "calculate_spent_amount" /\ result = Pending /\ result' # Pending) =>
       /\ result'.value = Total(transactions, call, Cardinality(SpentPool))
       /\ result'.value >= 0
       /\ (\A i \in 1..Cardinality(SpentPool) : ~Counts(transactions, call, i))
            => result'.value = 0
       /\ UNCHANGED <<budgets, transactions, next_id>>]_vars

\* the sum has been returned for the whole pool: both boundary days are
\* counted, the income, the zero amount, the other category, the other owner
\* and the days outside the window are not
C20_Witness ==
  /\ call.fn = "calculate_spent_amount" /\ result # Pending
  /\ transactions = SpentPool
  /\ call.user_id = "u1" /\ call.category = "food"
  /\ call.start_date = Date(2024, 1, 1) /\ call.end_date = Date(2024, 1, 31)
  /\ result.value = 50

\* the GET / requests possible in the current state, with their answers
Listings ==
  {[user |-> u, args |-> args, o |-> get_budgets(budgets, transactions, u, args)]
     : u \in Users, args \in ListArgs}

\* the spent amount of budget b: calculate_spent_amount over the period
\* window of (b.period, b.start_date)
SpentOf(b) ==
  LET w == calculate_period_dates(b.period, b.start_date)
  IN calculate_spent_amount(transactions, b.user_id, b.category,
                            w.start_date, w.end_date)

\* C21: after a successful read of the budget list every budget returned has
\* its stored spent_amount equal to calculate_spent_amount over its period
\* window and its stored remaining_amount equal to amount - spent_amount,
\* nothing else of it changes, the budgets not returned are unchanged and so
\* are the transactions
C21_ReadPersists ==
  /\ transactions = Ledger
  /\ \A l \in Listings :
       l.o.status = 200 =>
         /\ {b.id : b \in l.o.budgets} = {b.id : b \in budgets}
         /\ \A b \in budgets :
              IF b.id \in l.o.ids
              THEN [b EXCEPT !.spent_amount = SpentOf(b),
                             !.remaining_amount = b.amount - SpentOf(b)] \in l.o.budgets
              ELSE b \in l.o.budgets

\* C21 witness: a read has stored the 30 spent on food in January 2024 and
\* the 70 remaining of 100 in the Food budget of u1, and the table holds a
\* budget that a default read does not return
C21_Witness ==
  /\ \E b \in budgets :
       /\ b.user_id = "u1" /\ b.category = "food" /\ b.amount = 100
       /\ b.spent_amount = 30 /\ b.remaining_amount = 70
  /\ \E l \in Listings, b \in budgets :
       l.o.status = 200 /\ l.user = b.user_id /\ b.id \notin l.o.ids

\* the k most recently created rows of S
MostRecentRows(S, k) == {r \in S : Cardinality({q \in S : Older(r, q)}) < k}

\* C22: when interleaved cache writes have left more than 20 rows for a
\* pair, a cache write for the pair that runs alone leaves exactly 20 rows:
\* its new row and the 19 most recently created of the earlier rows
C22_SurplusPruned ==
  LET S == PairRows(cache, RacePair[1], RacePair[2])
      after == PairRows(_cache_rate(cache, RacePair[1], RacePair[2], Pos(1), "api",
                                    now, TRUE),
                        RacePair[1], RacePair[2])
  IN Cardinality(S) > CACHE_LIMIT =>
       /\ Cardinality(after) = CACHE_LIMIT
       /\ Cardinality(after \ S) = 1
       /\ after \cap S = MostRecentRows(S, CACHE_KEEP)

\* C22 witness: a writer that found more than 20 rows, left by interleaved
\* writers, has committed while no other writer was at work and has left 20
C22_Witness ==
  /\ lastStep = "commit"
  /\ \A w \in Writers : call[w].pc = "idle"
  /\ DOMAIN result = {"existing_count", "before", "after"}
  /\ result.existing_count > CACHE_LIMIT
  /\ result.before = result.existing_count
  /\ result.after = CACHE_LIMIT
  /\ Cardinality(PairRows(cache, RacePair[1], RacePair[2])) = CACHE_LIMIT

\* the uploads of one record possible in the current state, with the stored
\* transactions of that id and the answer
SingleUploads ==
  {[user |-> u, record |-> r,
    stored |-> {t \in transactions : t.id = r.id},
    o |-> upload_data(transactions, u, [transactions |-> <<r>>], now)]
     : u \in Users, r \in UploadRecords}

\* the upload carries an updated_at strictly later than that of row t
Later(r, t) == "updated_at" \in DOMAIN r /\ r.updated_at.at > t.updated_at

\* row t overwritten with what record r carries
Overwritten(t, r, n) ==
  /\ n.id = t.id /\ n.user_id = t.user_id
  /\ n.amount = (IF "amount" \in DOMAIN r THEN float(r.amount) ELSE t.amount)
  /\ n.currency = Get(r, "currency", t.currency)
  /\ n.date = r.date
  /\ n.category = Get(r, "category", t.category)
  /\ n.note = Get(r, "note", t.note)

\* the last-write-wins rule for upload u
LastWriteWins(u) ==
  /\ \A t \in u.stored :
       IF Later(u.record, t)
       THEN \E n \in u.o.transactions :
              /\ Overwritten(t, u.record, n)
              /\ u.o.transactions = (transactions \ {t}) \cup {n}
       ELSE u.o.transactions = transactions
  /\ u.stored = {} =>
       \E n \in u.o.transactions :
         /\ n.id = u.record.id /\ n.user_id = u.user /\ n \notin transactions
         /\ u.o.transactions = transactions \cup {n}

Processable(r, stored) ==
  /\ "date" \in DOMAIN r /\ IsDate(r.date)
  /\ "updated_at" \in DOMAIN r /\ stored # {} => ~r.updated_at.aware
  /\ "amount" \in DOMAIN r => r.amount \in FloatLiterals
  /\ stored = {} => "amount" \in DOMAIN r

C27_UploadIsolation ==
  \A u \in SingleUploads :
    \A t \in transactions : t.user_id # u.user => t \in u.o.transactions

\* C24: in every state reachable by create_budget, update_budget,
\* rollover_budgets, get_budgets and delete_budget requests run one at a
\* time, each (owner, category, period) has at most one active budget
C24_OneActive ==
  \A a \in budgets, b \in budgets :
    (/\ a.is_active /\ b.is_active
     /\ a.user_id = b.user_id /\ a.category = b.category /\ a.period = b.period)
      => a = b

\* C25: a rollover request that submits ids of inactive budgets rolls none
\* of them over: it creates no budget and changes nothing, so a budget gets
\* at most one successor
C25_RolloverActiveOnly ==
  \A r \in Rollovers :
    ("budget_ids" \in DOMAIN r.data /\ \A b \in r.selected : ~b.is_active) =>
      /\ r.o.budgets = budgets
      /\ r.o.pairs = {}

\* the budgets of B that user u does not own
Foreign(B, u) == {b \in B : b.user_id # u}

\* the answers to the PUT, DELETE, POST /rollover and GET requests that user
\* u can send in the current state
AnswersTo(u) ==
  {update_budget(budgets, u, id, data) : id \in 1..MaxBudgets, data \in UpdateBodies}
    \cup {delete_budget(budgets, u, id) : id \in 1..MaxBudgets}
    \cup {rollover_budgets(budgets, next_id, u, data) : data \in RolloverBodies(budgets)}
    \cup {get_budgets(budgets, transactions, u, args) : args \in ListArgs}

\* C26: no update_budget, delete_budget, rollover_budgets or get_budgets
\* request of a user creates, modifies, deactivates or deletes a budget of
\* another user, also when it submits the other user's budget ids; update
\* and delete of a foreign budget id answer 'not found'
C26_OwnerIsolation ==
  \A u \in Users :
    /\ \A o \in AnswersTo(u) : Foreign(o.budgets, u) = Foreign(budgets, u)
    /\ \A b \in Foreign(budgets, u) :
         /\ \A data \in UpdateBodies :
              LET o == update_budget(budgets, u, b.id, data)
              IN o.status = 404 /\ o.message = "Budget not found" /\ o.budgets = budgets
         /\ LET o == delete_budget(budgets, u, b.id)
            IN o.status = 404 /\ o.message = "Budget not found" /\ o.budgets = budgets

\* C26 witness: u1 and u2 both own a budget, a request of u1 has
\* deactivated u1's, and u2's is as it was created
C26_Witness ==
  \E a \in budgets, b \in budgets :
    /\ a.user_id = "u1" /\ ~a.is_active
    /\ b.user_id = "u2" /\ b.is_active /\ b.category = "food" /\ b.spent_amount = 0
    /\ \E data \in RolloverBodies(budgets) :
         /\ "budget_ids" \in DOMAIN data /\ b.id \in data.budget_ids
         /\ rollover_budgets(budgets, next_id, "u1", data).status = 200

\* the return statements of the cache tiers
CacheTiers == {"fresh", "stale", "reverse", "bridge"}

\* C28: a rate that get_exchange_rate returns from a cache tier derives
\* from a provider observation made at most 48 hours earlier: with the
\* providers down since the observation of hour 0, whose rows are all the
\* cache derives from, no call is served from a cache tier after hour 48
C28_Lineage ==
  \A k \in Calls({}, cache, now, api_key) :
    k.out.step \in CacheTiers => now <= FALLBACK_HOURS

\* C29: when a budget is rolled over to its own period kind, the period
\* window of the successor begins exactly one day after the period window of
\* the predecessor ends
C29_WindowsAdjacent ==
  (call.fn = "new_start" /\ result # Pending /\ IsDate(result)) =>
    LET old == calculate_period_dates(call.period, call.date)
        new == calculate_period_dates(call.period, result)
    IN /\ ~Raised(old) /\ ~Raised(new)
       /\ toordinal(new.start_date) = toordinal(old.end_date) + 1

\* the primary preferences of user u in table P
Primaries(P, u) == {p \in P : p.user_id = u /\ p.is_primary}

\* C30: in every state reachable by get_currency_preferences and
\* set_currency_preference requests from no preferences, a user has at most
\* one primary currency preference, and after a successful
\* set_currency_preference(code) the primary preference is the one of code
C30_OnePrimary ==
  \A u \in Users :
    /\ Cardinality(Primaries(preferences, u)) <= 1
    /\ \A data \in PreferenceBodies, existing_primary \in PrimaryChoices(preferences, u) :
         LET o == set_currency_preference(preferences, u, data, existing_primary)
         IN o.status = 200 =>
              /\ Cardinality(Primaries(o.preferences, u)) = 1
              /\ \A p \in Primaries(o.preferences, u) :
                   p.currency_code = o.primary_currency
              /\ o.primary_currency
                   = Or(Get(data, "primary_currency", ""), Get(data, "currency_code", ""))

\* C30 witness: u1, whose first preference was the default USD, has made
\* EUR and then JPY the primary currency: JPY is primary, USD and EUR are
\* kept as secondary preferences
C30_Witness ==
  /\ {p.currency_code : p \in {x \in preferences : x.user_id = "u1"}}
       = {"USD", "EUR", "JPY"}
  /\ {p.currency_code : p \in Primaries(preferences, "u1")} = {"JPY"}

====
